---- MODULE Spec2Model ----
(***************************************************************************)
(* State layer of the codedestate cw721 contract                           *)
(* (contracts/codedestate/src/state.rs): the indexed token table with its  *)
(* owner index, the balance ledger, the fee and token counters, and the    *)
(* owner/sender validation rule.  All of it lives in one key-value store.  *)
(***************************************************************************)
EXTENDS Integers, Sequences, FiniteSets, TLC

VARIABLES storage, last, feeWritten, netTokens

vars == <<storage, last, feeWritten, netTokens>>

(***************************************************************************)
(* Bounds                                                                  *)
(***************************************************************************)
\* largest value of the (scaled down) Uint128 balance type
MaxUint128 == 2
\* largest value of the (scaled down) u64 counter type
MaxU64 == 2
\* largest fee handed to set_fee
MaxFee == 1
\* largest amount handed to increase_balance / decrease_balance
MaxAmount == 2

(***************************************************************************)
(* Constants of the program                                                *)
(***************************************************************************)
BRIDGE_WALLET == "nibiru_bridge_address"

contract_key == "nft_info"
token_count_key == "num_tokens"
\* mutant: the fee shares the token counter's key
fee_key_aliased == token_count_key
fee_key == "fee"
balance_key == "balances"
operator_key == "operators"
tokens_key == "tokens"
tokens_owner_key == "tokens__owner"

(***************************************************************************)
(* Input domains                                                           *)
(***************************************************************************)
TokenIds == {"1", "10", "9"}
FewTokenIds == {"10", "9"}
Denoms == {"unibi", "uusdc"}
TableChainTypes == {"nibiru", "eth"}
TableAddresses == {"nibi1alice", "0xabc"}
Extensions == {"e0", "e1"}
ChainTypes == {"nibiru", "Nibiru", "eth", ""}
AllAddresses == {"nibi1alice", "nibi1bob", "0xabc", BRIDGE_WALLET, ""}

\* str::as_bytes of the token identifiers (ASCII)
AsBytes(s) ==
    CASE s = "1" -> <<49>>
      [] s = "10" -> <<49, 48>>
      [] s = "9" -> <<57>>

(***************************************************************************)
(* Data model                                                              *)
(***************************************************************************)
Owner(c, a) == [chain_type |-> c, address |-> a]

Addr(s) == [inner |-> s]

AddrToString(a) == a.inner

TokenInfo(o, e) ==
    [owner |-> o, approvals |-> <<>>, longterm_rental |-> "ltr",
     shortterm_rental |-> "str", rentals |-> <<>>, bids |-> <<>>,
     sell |-> "sell", token_uri |-> "uri", extension |-> e]

TokenInfos ==
    {TokenInfo(Owner(c, a), e) :
        c \in TableChainTypes, a \in TableAddresses, e \in Extensions}

FewTokenInfos ==
    {TokenInfo(Owner("nibiru", "nibi1alice"), "e0"),
     TokenInfo(Owner("eth", "0xabc"), "e1")}

None == [some |-> FALSE]

Some(v) == [some |-> TRUE, val |-> v]

unwrap_or_default(opt) == IF opt.some THEN opt.val ELSE 0

(***************************************************************************)
(* Serialisation of stored values                                          *)
(***************************************************************************)
\* u64 is stored as a JSON number, Uint128 as a JSON string
SerU64(n) == <<"number", n>>

DeU64(v) == v[2]

SerUint128(n) == <<"string", n>>

DeUint128(v) == v[2]

\* mutant: the extension payload is not written
SerTokenInfoNoExtension(d) ==
    <<<<d.owner.chain_type, d.owner.address>>, d.approvals, d.longterm_rental,
      d.shortterm_rental, d.rentals, d.bids, d.sell, d.token_uri, "e0">>

SerTokenInfo(d) ==
    <<<<d.owner.chain_type, d.owner.address>>, d.approvals, d.longterm_rental,
      d.shortterm_rental, d.rentals, d.bids, d.sell, d.token_uri, d.extension>>

DeTokenInfo(v) ==
    [owner |-> [chain_type |-> v[1][1], address |-> v[1][2]],
     approvals |-> v[2], longterm_rental |-> v[3], shortterm_rental |-> v[4],
     rentals |-> v[5], bids |-> v[6], sell |-> v[7], token_uri |-> v[8],
     extension |-> v[9]]

(***************************************************************************)
(* The key-value store                                                     *)
(***************************************************************************)
ItemKey(ns) == <<ns>>

MapKey(ns, k) == <<ns, k>>

StoreSet(st, key, v) ==
    [k \in DOMAIN st \cup {key} |-> IF k = key THEN v ELSE st[k]]

StoreRemove(st, key) == [k \in DOMAIN st \ {key} |-> st[k]]

StoreGet(st, key) == IF key \in DOMAIN st THEN Some(st[key]) ELSE None

(***************************************************************************)
(* Scalars and the balance ledger: reads                                   *)
(***************************************************************************)
fee_may_load(st) ==
    LET raw == StoreGet(st, ItemKey(fee_key))
    IN IF raw.some THEN Some(DeU64(raw.val)) ELSE None

get_fee(st) == unwrap_or_default(fee_may_load(st))

token_count(st) ==
    LET raw == StoreGet(st, ItemKey(token_count_key))
    IN unwrap_or_default(IF raw.some THEN Some(DeU64(raw.val)) ELSE None)

get_balance(st, denom) ==
    LET raw == StoreGet(st, MapKey(balance_key, denom))
    IN unwrap_or_default(IF raw.some THEN Some(DeUint128(raw.val)) ELSE None)

(***************************************************************************)
(* The indexed token table                                                 *)
(***************************************************************************)
\* mutant: the index is keyed by the owner's chain type
token_owner_idx_chain(pk, d) == d.owner.chain_type

token_owner_idx(pk, d) == d.owner.address

IndexKey(ik, pk) == <<tokens_owner_key, ik, pk>>

MultiIndexSave(st, pk, data) ==
    StoreSet(st, IndexKey(token_owner_idx(pk, data), pk),
             <<"number", Len(AsBytes(pk))>>)

MultiIndexRemove(st, pk, old) ==
    StoreRemove(st, IndexKey(token_owner_idx(pk, old), pk))

load(st, id) ==
    LET raw == StoreGet(st, MapKey(tokens_key, id))
    IN IF raw.some THEN Some(DeTokenInfo(raw.val)) ELSE None

\* mutant: the old index entry is left behind
ReplaceKeepOldIndex(st, key, data, old_data) ==
    IF data.some
    THEN StoreSet(MultiIndexSave(st, key, data.val),
                  MapKey(tokens_key, key), SerTokenInfo(data.val))
    ELSE StoreRemove(st, MapKey(tokens_key, key))

\* mutant: the old index entry is removed after the new one is written
ReplaceRemoveLast(st, key, data, old_data) ==
    LET s1 == IF data.some THEN MultiIndexSave(st, key, data.val) ELSE st
        s2 == IF old_data.some THEN MultiIndexRemove(s1, key, old_data.val)
              ELSE s1
    IN IF data.some
       THEN StoreSet(s2, MapKey(tokens_key, key), SerTokenInfo(data.val))
       ELSE StoreRemove(s2, MapKey(tokens_key, key))

Replace(st, key, data, old_data) ==
    LET s1 == IF old_data.some THEN MultiIndexRemove(st, key, old_data.val)
              ELSE st
    IN IF data.some
       THEN StoreSet(MultiIndexSave(s1, key, data.val),
                     MapKey(tokens_key, key), SerTokenInfo(data.val))
       ELSE StoreRemove(s1, MapKey(tokens_key, key))

BytesLess(a, b) ==
    \/ \E i \in 1..Len(a) :
          /\ i <= Len(b)
          /\ \A j \in 1..(i - 1) : a[j] = b[j]
          /\ a[i] < b[i]
    \/ /\ Len(a) < Len(b)
       /\ \A j \in 1..Len(a) : a[j] = b[j]

\* mutant: shorter identifiers come first
RECURSIVE SortIdsByLength(_)
SortIdsByLength(S) ==
    IF S = {} THEN <<>>
    ELSE LET m == CHOOSE x \in S :
                    \A y \in S \ {x} :
                        \/ Len(AsBytes(x)) < Len(AsBytes(y))
                        \/ /\ Len(AsBytes(x)) = Len(AsBytes(y))
                           /\ BytesLess(AsBytes(x), AsBytes(y))
         IN <<m>> \o SortIdsByLength(S \ {m})

RECURSIVE SortIds(_)
SortIds(S) ==
    IF S = {} THEN <<>>
    ELSE LET m == CHOOSE x \in S :
                    \A y \in S \ {x} : BytesLess(AsBytes(x), AsBytes(y))
         IN <<m>> \o SortIds(S \ {m})

IndexedIds(st, o) ==
    {k[3] : k \in {x \in DOMAIN st :
                     /\ Len(x) = 3
                     /\ x[1] = tokens_owner_key
                     /\ x[2] = o}}

\* tokens.idx.owner.prefix(o).range(..): the (id, record) pairs under o
query_by_owner(st, o) ==
    LET ids == SortIds(IndexedIds(st, o))
    IN IF \E i \in 1..Len(ids) : ~load(st, ids[i]).some
       THEN [ok |-> FALSE, err |-> "pk not found"]
       ELSE [ok |-> TRUE,
             items |-> [i \in 1..Len(ids) |->
                          <<ids[i], load(st, ids[i]).val>>]]

OwnedIds(st, o) ==
    LET q == query_by_owner(st, o)
    IN IF q.ok THEN {q.items[i][1] : i \in 1..Len(q.items)} ELSE {"pk not found"}

(***************************************************************************)
(* Owner validation                                                        *)
(***************************************************************************)
\* mutant: the bridge may also act for a native owner
validate_sender_bridge_native(self, sender) ==
    IF self.chain_type = "nibiru"
    THEN \/ self.address = AddrToString(sender)
         \/ AddrToString(sender) = BRIDGE_WALLET
    ELSE AddrToString(sender) = BRIDGE_WALLET

\* mutant: a foreign owner may also act for itself
validate_sender_foreign_self(self, sender) ==
    IF self.chain_type = "nibiru"
    THEN self.address = AddrToString(sender)
    ELSE \/ AddrToString(sender) = BRIDGE_WALLET
         \/ AddrToString(sender) = self.address

\* mutant: the chain type is not looked at
validate_sender_no_match(self, sender) ==
    self.address = AddrToString(sender)

validate_sender(self, sender) ==
    IF self.chain_type = "nibiru"
    THEN self.address = AddrToString(sender)
    ELSE AddrToString(sender) = BRIDGE_WALLET

(***************************************************************************)
(* Initial state: an empty store                                           *)
(***************************************************************************)
Init ==
    /\ storage = <<>>
    /\ last = [op |-> "new"]
    /\ feeWritten = None
    /\ netTokens = Some(0)

(***************************************************************************)
(* Operations                                                              *)
(***************************************************************************)
\* mutant: a save also bumps the token counter
SaveAndCount(id, data) ==
    /\ storage' = StoreSet(Replace(storage, id, Some(data), load(storage, id)),
                           ItemKey(token_count_key),
                           SerU64((token_count(storage) + 1) % (MaxU64 + 1)))
    /\ last' = [op |-> "save", id |-> id, data |-> data,
                prev |-> load(storage, id)]
    /\ UNCHANGED <<feeWritten, netTokens>>

Save(id, data) ==
    /\ storage' = Replace(storage, id, Some(data), load(storage, id))
    /\ last' = [op |-> "save", id |-> id, data |-> data,
                prev |-> load(storage, id)]
    /\ UNCHANGED <<feeWritten, netTokens>>

\* mutant: only the primary record is deleted
RemovePrimaryOnly(id) ==
    /\ storage' = Replace(storage, id, None, None)
    /\ last' = [op |-> "remove", id |-> id, prev |-> load(storage, id)]
    /\ UNCHANGED <<feeWritten, netTokens>>

Remove(id) ==
    /\ storage' = Replace(storage, id, None, load(storage, id))
    /\ last' = [op |-> "remove", id |-> id, prev |-> load(storage, id)]
    /\ UNCHANGED <<feeWritten, netTokens>>

\* mutant: a fee already set is not overwritten
SetFeeOnce(fee) ==
    /\ storage' = IF ItemKey(fee_key) \in DOMAIN storage THEN storage
                  ELSE StoreSet(storage, ItemKey(fee_key), SerU64(fee))
    /\ last' = [op |-> "set_fee", fee |-> fee, ret |-> fee]
    /\ feeWritten' = Some(fee)
    /\ UNCHANGED netTokens

SetFee(fee) ==
    /\ storage' = StoreSet(storage, ItemKey(fee_key), SerU64(fee))
    /\ last' = [op |-> "set_fee", fee |-> fee, ret |-> fee]
    /\ feeWritten' = Some(fee)
    /\ UNCHANGED netTokens

\* mutant: the amount replaces the balance instead of being added to it
IncreaseBalanceOverwrite(denom, amount) ==
    /\ storage' = StoreSet(storage, MapKey(balance_key, denom),
                           SerUint128(amount))
    /\ last' = [op |-> "increase_balance", denom |-> denom,
                amount |-> amount, ok |-> TRUE, ret |-> amount,
                before |-> get_balance(storage, denom)]
    /\ UNCHANGED <<feeWritten, netTokens>>

\* Uint128 += : checked addition, panics on overflow (nothing is persisted)
IncreaseBalance(denom, amount) ==
    LET balance == get_balance(storage, denom) + amount
    IN IF balance > MaxUint128
       THEN /\ last' = [op |-> "increase_balance", denom |-> denom,
                        amount |-> amount, ok |-> FALSE,
                        before |-> get_balance(storage, denom)]
            /\ UNCHANGED <<storage, feeWritten, netTokens>>
       ELSE /\ storage' = StoreSet(storage, MapKey(balance_key, denom),
                                   SerUint128(balance))
            /\ last' = [op |-> "increase_balance", denom |-> denom,
                        amount |-> amount, ok |-> TRUE, ret |-> balance,
                        before |-> get_balance(storage, denom)]
            /\ UNCHANGED <<feeWritten, netTokens>>

\* the balance before the increase_balance that the call (denom, amount)
\* directly follows, if it follows one with the same arguments
Undoes(denom, amount) ==
    IF /\ last.op = "increase_balance"
       /\ last.ok
       /\ last.denom = denom
       /\ last.amount = amount
    THEN Some(last.before)
    ELSE None

\* mutant: the decreased balance is returned but never saved
DecreaseBalanceNoSave(denom, amount) ==
    LET balance == get_balance(storage, denom) - amount
    IN /\ balance >= 0
       /\ last' = [op |-> "decrease_balance", denom |-> denom,
                   amount |-> amount, ok |-> TRUE, ret |-> balance,
                   before |-> get_balance(storage, denom),
                   undoes |-> Undoes(denom, amount)]
       /\ UNCHANGED <<storage, feeWritten, netTokens>>

\* mutant: the subtraction wraps around instead of panicking
DecreaseBalanceWrapping(denom, amount) ==
    LET balance == (get_balance(storage, denom) - amount) % (MaxUint128 + 1)
    IN /\ storage' = StoreSet(storage, MapKey(balance_key, denom),
                              SerUint128(balance))
       /\ last' = [op |-> "decrease_balance", denom |-> denom,
                   amount |-> amount,
                   ok |-> (get_balance(storage, denom) >= amount),
                   ret |-> balance,
                   before |-> get_balance(storage, denom),
                   undoes |-> Undoes(denom, amount)]
       /\ UNCHANGED <<feeWritten, netTokens>>

\* Uint128 -= : checked subtraction, panics on underflow
DecreaseBalance(denom, amount) ==
    LET balance == get_balance(storage, denom) - amount
    IN IF balance < 0
       THEN /\ last' = [op |-> "decrease_balance", denom |-> denom,
                        amount |-> amount, ok |-> FALSE,
                        before |-> get_balance(storage, denom)]
            /\ UNCHANGED <<storage, feeWritten, netTokens>>
       ELSE /\ storage' = StoreSet(storage, MapKey(balance_key, denom),
                                   SerUint128(balance))
            /\ last' = [op |-> "decrease_balance", denom |-> denom,
                        amount |-> amount, ok |-> TRUE, ret |-> balance,
                        before |-> get_balance(storage, denom),
                        undoes |-> Undoes(denom, amount)]
            /\ UNCHANGED <<feeWritten, netTokens>>

\* the position of an increment_tokens call in a run of consecutive calls
\* that started on a never-set counter (0: the call is in no such run)
NthIncrement ==
    IF ItemKey(token_count_key) \notin DOMAIN storage THEN 1
    ELSE IF /\ last.op = "increment_tokens"
            /\ last.ok
            /\ last.nth \in 1..MaxU64
    THEN last.nth + 1
    ELSE 0

\* increments minus decrements, while the count stayed within the u64 range
NetAfter(delta, fits) ==
    IF netTokens.some /\ fits THEN Some(netTokens.val + delta) ELSE None

\* mutant: the incremented count is returned but never saved
IncrementTokensNoSave ==
    LET val == token_count(storage) + 1
    IN /\ val <= MaxU64
       /\ last' = [op |-> "increment_tokens", ok |-> TRUE, ret |-> val,
                   nth |-> NthIncrement]
       /\ netTokens' = NetAfter(1, TRUE)
       /\ UNCHANGED <<storage, feeWritten>>

\* u64 + 1 at the top of the range panics when the build checks overflow
\* and wraps when it does not
IncrementTokens ==
    LET val == token_count(storage) + 1
    IN \/ /\ val <= MaxU64
          /\ storage' = StoreSet(storage, ItemKey(token_count_key), SerU64(val))
          /\ last' = [op |-> "increment_tokens", ok |-> TRUE, ret |-> val,
                      nth |-> NthIncrement]
          /\ netTokens' = NetAfter(1, TRUE)
          /\ UNCHANGED feeWritten
       \/ /\ val > MaxU64
          /\ storage' = StoreSet(storage, ItemKey(token_count_key),
                                 SerU64(val % (MaxU64 + 1)))
          /\ last' = [op |-> "increment_tokens", ok |-> TRUE,
                      ret |-> val % (MaxU64 + 1), nth |-> NthIncrement]
          /\ netTokens' = NetAfter(1, FALSE)
          /\ UNCHANGED feeWritten
       \/ /\ val > MaxU64
          /\ last' = [op |-> "increment_tokens", ok |-> FALSE]
          /\ netTokens' = NetAfter(1, FALSE)
          /\ UNCHANGED <<storage, feeWritten>>

\* mutant: the decremented count is returned but never saved
DecrementTokensNoSave ==
    LET val == token_count(storage) - 1
    IN /\ val >= 0
       /\ last' = [op |-> "decrement_tokens", ok |-> TRUE, ret |-> val,
                   before |-> token_count(storage)]
       /\ netTokens' = NetAfter(-1, TRUE)
       /\ UNCHANGED <<storage, feeWritten>>

\* u64 - 1 at zero panics when the build checks overflow and wraps when it
\* does not
DecrementTokens ==
    LET val == token_count(storage) - 1
    IN \/ /\ val >= 0
          /\ storage' = StoreSet(storage, ItemKey(token_count_key), SerU64(val))
          /\ last' = [op |-> "decrement_tokens", ok |-> TRUE, ret |-> val,
                      before |-> token_count(storage)]
          /\ netTokens' = NetAfter(-1, TRUE)
          /\ UNCHANGED feeWritten
       \/ /\ val < 0
          /\ storage' = StoreSet(storage, ItemKey(token_count_key),
                                 SerU64(val % (MaxU64 + 1)))
          /\ last' = [op |-> "decrement_tokens", ok |-> TRUE,
                      ret |-> val % (MaxU64 + 1),
                      before |-> token_count(storage)]
          /\ netTokens' = NetAfter(-1, FALSE)
          /\ UNCHANGED feeWritten
       \/ /\ val < 0
          /\ last' = [op |-> "decrement_tokens", ok |-> FALSE,
                      before |-> token_count(storage)]
          /\ netTokens' = NetAfter(-1, FALSE)
          /\ UNCHANGED <<storage, feeWritten>>

ValidateSender(owner, sender) ==
    /\ last' = [op |-> "validate_sender", owner |-> owner, sender |-> sender,
                ret |-> validate_sender(owner, sender)]
    /\ UNCHANGED <<storage, feeWritten, netTokens>>

Next ==
    \/ \E id \in FewTokenIds, data \in FewTokenInfos : Save(id, data)
    \/ \E id \in FewTokenIds : Remove(id)
    \/ \E fee \in 0..MaxFee : SetFee(fee)
    \/ \E denom \in Denoms, amount \in 0..MaxAmount :
          IncreaseBalance(denom, amount)
    \/ \E denom \in Denoms, amount \in 0..MaxAmount :
          DecreaseBalance(denom, amount)
    \/ IncrementTokens
    \/ DecrementTokens

Spec == Init /\ [][Next]_vars

\* the token table alone, over more identifiers and records
NextTokens ==
    \/ \E id \in TokenIds, data \in TokenInfos : Save(id, data)
    \/ \E id \in TokenIds : Remove(id)

SpecTokens == Init /\ [][NextTokens]_vars

\* the validator alone, applied to every owner and sender
NextValidate ==
    \E c \in ChainTypes, a \in AllAddresses, s \in AllAddresses :
        ValidateSender(Owner(c, a), Addr(s))

SpecValidate == Init /\ [][NextValidate]_vars

(***************************************************************************)
(* Properties                                                              *)
(***************************************************************************)
OwnerKeys == TableAddresses \cup AllAddresses

LiveIdsOf(st, o) ==
    {id \in TokenIds : load(st, id).some /\ load(st, id).val.owner.address = o}

\* C1: after any sequence of save and remove, query_by_owner(o) succeeds and
\* returns exactly the ids whose live record has owner.address = o, for
\* every owner address o.
C1_IndexConsistency ==
    \A o \in OwnerKeys :
        /\ query_by_owner(storage, o).ok
        /\ OwnedIds(storage, o) = LiveIdsOf(storage, o)

C1_Witness ==
    /\ last.op = "remove"
    /\ last.prev.some
    /\ last.prev.val.owner.address = "nibi1alice"
    /\ last.id = "1"
    /\ OwnedIds(storage, "nibi1alice") = {"9"}
    /\ OwnedIds(storage, "0xabc") = {"10"}

\* C2: a save of an existing id that changes the owner address from A to B
\* leaves the id listed under B and under no other address, A included.
C2_IndexMigration ==
    (/\ last.op = "save"
     /\ last.prev.some
     /\ last.prev.val.owner.address # last.data.owner.address)
    => /\ last.id \notin OwnedIds(storage, last.prev.val.owner.address)
       /\ last.id \in OwnedIds(storage, last.data.owner.address)
       /\ {o \in OwnerKeys : last.id \in OwnedIds(storage, o)}
             = {last.data.owner.address}

C2_Witness ==
    /\ last.op = "save"
    /\ last.prev.some
    /\ last.prev.val.owner = Owner("nibiru", "nibi1alice")
    /\ last.data.owner = Owner("nibiru", "0xabc")
    /\ OwnedIds(storage, "0xabc") = {last.id}

\* C3: load(i) after save(i, r) returns r in every field, and keeps
\* returning it while no save or remove of i happens.
C3_SaveLoadRoundTrip ==
    [][\A i \in TokenIds :
          IF last'.op = "save" /\ last'.id = i
          THEN load(storage', i) = Some(last'.data)
          ELSE IF last'.op = "remove" /\ last'.id = i
          THEN TRUE
          ELSE load(storage', i) = load(storage, i)]_vars

C3_Witness ==
    /\ last.op = "save"
    /\ last.prev.some
    /\ last.prev.val.owner = last.data.owner
    /\ last.prev.val.extension = "e0"
    /\ last.data.extension = "e1"
    /\ load(storage, last.id) = Some(last.data)

\* C4: remove(id) of a live id deletes the record, takes the id out of the
\* query result of the deleted record's owner address, and leaves every
\* other id's record and index entry as they were.
C4_RemoveFrame ==
    [][(last'.op = "remove" /\ load(storage, last'.id).some)
        => LET id == last'.id
               old == load(storage, id).val
           IN /\ load(storage', id) = None
              /\ query_by_owner(storage', old.owner.address).ok
              /\ id \notin OwnedIds(storage', old.owner.address)
              /\ \A j \in TokenIds \ {id} : load(storage', j) = load(storage, j)
              /\ \A o \in OwnerKeys :
                    OwnedIds(storage', o) \ {id} = OwnedIds(storage, o) \ {id}]_vars

C4_Witness ==
    /\ last.op = "remove"
    /\ last.prev.some
    /\ last.id = "10"
    /\ load(storage, "10") = None
    /\ load(storage, "9").some
    /\ OwnedIds(storage, last.prev.val.owner.address) = {"9"}

\* C5: for an owner whose chain_type is exactly "nibiru", validate_sender is
\* true iff owner.address equals the sender string.
C5_NativeOwner ==
    (last.op = "validate_sender" /\ last.owner.chain_type = "nibiru")
    => (last.ret <=> last.owner.address = AddrToString(last.sender))

C5_Witness ==
    /\ last.op = "validate_sender"
    /\ last.owner = Owner("nibiru", "nibi1alice")
    /\ last.sender = Addr(BRIDGE_WALLET)
    /\ last.ret = FALSE

\* C6: for an owner whose chain_type is anything but "nibiru",
\* validate_sender is true iff the sender is BRIDGE_WALLET, whatever
\* owner.address is.
C6_ForeignOwner ==
    (last.op = "validate_sender" /\ last.owner.chain_type # "nibiru")
    => (last.ret <=> AddrToString(last.sender) = BRIDGE_WALLET)

C6_Witness ==
    /\ last.op = "validate_sender"
    /\ last.owner = Owner("Nibiru", "nibi1alice")
    /\ last.sender = Addr(BRIDGE_WALLET)
    /\ last.ret = TRUE

\* C7 as stated: for every owner whose chain_type is not "nibiru",
\* validate_sender(owner, owner.address) is false.
C7_Original ==
    (/\ last.op = "validate_sender"
     /\ last.owner.chain_type # "nibiru"
     /\ AddrToString(last.sender) = last.owner.address)
    => last.ret = FALSE

\* C7 as amended: for every owner whose chain_type is not "nibiru" and
\* whose address is not BRIDGE_WALLET, validate_sender(owner, owner.address)
\* is false.
C7_ForeignNoSelfAuth ==
    (/\ last.op = "validate_sender"
     /\ last.owner.chain_type # "nibiru"
     /\ last.owner.address # BRIDGE_WALLET
     /\ AddrToString(last.sender) = last.owner.address)
    => last.ret = FALSE

C7_Witness ==
    /\ last.op = "validate_sender"
    /\ last.owner = Owner("eth", "0xabc")
    /\ last.sender = Addr("0xabc")
    /\ last.ret = FALSE

\* C8: decrease_balance(d, a) directly after increase_balance(d, a), both
\* succeeding, leaves get_balance(d) at its value before the increase.
C8_BalanceRoundTrip ==
    (last.op = "decrease_balance" /\ last.ok /\ last.undoes.some)
    => get_balance(storage, last.denom) = last.undoes.val

C8_Witness ==
    /\ last.op = "decrease_balance"
    /\ last.ok
    /\ last.undoes = Some(1)
    /\ last.amount = 1
    /\ get_balance(storage, last.denom) = 1

\* C9: get_balance(d) is zero for a denomination never written, and a
\* returning increase_balance(d, a) returns old + a, which is what
\* get_balance(d) reads right after it.
C9_IncreaseBalance ==
    /\ \A d \in Denoms :
          MapKey(balance_key, d) \notin DOMAIN storage
             => get_balance(storage, d) = 0
    /\ (last.op = "increase_balance" /\ last.ok)
          => /\ last.ret = last.before + last.amount
             /\ get_balance(storage, last.denom) = last.ret

C9_Witness ==
    /\ last.op = "increase_balance"
    /\ last.ok
    /\ last.denom = "unibi"
    /\ last.before = 1
    /\ last.amount = 1
    /\ get_balance(storage, "unibi") = 2
    /\ MapKey(balance_key, "uusdc") \notin DOMAIN storage

\* C10: get_fee() is 0 until the first set_fee, and after set_fee(v) it is v
\* until the next set_fee, whatever other operations run in between.
C10_Fee ==
    get_fee(storage) = IF feeWritten.some THEN feeWritten.val ELSE 0

C10_Witness ==
    /\ feeWritten = Some(1)
    /\ last.op = "increment_tokens"
    /\ last.ok
    /\ token_count(storage) = 1
    /\ get_fee(storage) = 1

\* C11: starting on a never-set counter, the k-th of n consecutive
\* increment_tokens calls returns k and leaves token_count() = k, for every
\* k the u64 range holds.
C11_IncrementFromZero ==
    /\ ItemKey(token_count_key) \notin DOMAIN storage
          => token_count(storage) = 0
    /\ (/\ last.op = "increment_tokens"
        /\ last.ok
        /\ last.nth \in 1..MaxU64)
          => /\ last.ret = last.nth
             /\ token_count(storage) = last.nth

C11_Witness ==
    /\ last.op = "increment_tokens"
    /\ last.ok
    /\ last.nth = 2
    /\ last.ret = 2
    /\ token_count(storage) = 2

\* C12: decrement_tokens on a count c >= 1 persists and returns c - 1, and
\* while the count never left the u64 range token_count() is the number of
\* increments minus the number of decrements.
C12_DecrementAndNet ==
    /\ (last.op = "decrement_tokens" /\ last.before >= 1)
          => /\ last.ok
             /\ last.ret = last.before - 1
             /\ token_count(storage) = last.ret
    /\ netTokens.some => token_count(storage) = netTokens.val

C12_Witness ==
    /\ last.op = "decrement_tokens"
    /\ last.ok
    /\ last.before = 2
    /\ netTokens = Some(1)
    /\ token_count(storage) = 1

IndexEntries(st) ==
    {k \in DOMAIN st : Len(k) = 3 /\ k[1] = tokens_owner_key}

LiveIds(st) == {id \in TokenIds : load(st, id).some}

TableUnchanged(st1, st2) ==
    /\ \A id \in TokenIds : load(st2, id) = load(st1, id)
    /\ \A o \in OwnerKeys : query_by_owner(st2, o) = query_by_owner(st1, o)

\* C14: save and remove leave token_count() as it was, and
\* increment_tokens / decrement_tokens leave every record and every owner's
\* query result as they were.
C14_CounterFrame ==
    [][/\ last'.op \in {"save", "remove"}
          => token_count(storage') = token_count(storage)
       /\ last'.op \in {"increment_tokens", "decrement_tokens"}
          => TableUnchanged(storage, storage')]_vars

C14_Witness ==
    /\ last.op = "remove"
    /\ last.prev.some
    /\ token_count(storage) = 2
    /\ LiveIds(storage) = {}

ChangedKeys(st1, st2) ==
    {k \in DOMAIN st1 \cup DOMAIN st2 :
        \/ k \notin DOMAIN st1
        \/ k \notin DOMAIN st2
        \/ st1[k] # st2[k]}

Namespaces ==
    {contract_key, token_count_key, fee_key, balance_key, operator_key,
     tokens_key, tokens_owner_key}

\* C16: increase_balance / decrease_balance on d change nothing but the
\* balance of d, set_fee changes nothing but the fee, and the seven storage
\* namespaces are pairwise different.
C16_StoresIndependent ==
    [][/\ Cardinality(Namespaces) = 7
       /\ last'.op \in {"increase_balance", "decrease_balance"}
          => /\ ChangedKeys(storage, storage')
                   \subseteq {MapKey(balance_key, last'.denom)}
             /\ \A d \in Denoms \ {last'.denom} :
                   get_balance(storage', d) = get_balance(storage, d)
             /\ get_fee(storage') = get_fee(storage)
             /\ token_count(storage') = token_count(storage)
             /\ \A id \in TokenIds : load(storage', id) = load(storage, id)
             /\ IndexEntries(storage') = IndexEntries(storage)
       /\ last'.op = "set_fee"
          => /\ ChangedKeys(storage, storage') \subseteq {ItemKey(fee_key)}
             /\ \A d \in Denoms :
                   get_balance(storage', d) = get_balance(storage, d)
             /\ token_count(storage') = token_count(storage)
             /\ \A id \in TokenIds : load(storage', id) = load(storage, id)
             /\ IndexEntries(storage') = IndexEntries(storage)]_vars

C16_Witness ==
    /\ last.op = "increase_balance"
    /\ last.ok
    /\ last.denom = "unibi"
    /\ last.amount = 1
    /\ get_balance(storage, "uusdc") = 2
    /\ get_fee(storage) = 1
    /\ token_count(storage) = 1
    /\ load(storage, "9").some

\* C15: a save of an existing id that keeps the owner address leaves every
\* owner's id set as it was, leaves exactly one index entry for the id, and
\* load(id) returns the new record.
C15_SameOwnerSave ==
    [][(/\ last'.op = "save"
        /\ load(storage, last'.id).some
        /\ load(storage, last'.id).val.owner.address
              = last'.data.owner.address)
       => /\ \A o \in OwnerKeys : OwnedIds(storage', o) = OwnedIds(storage, o)
          /\ {k \in IndexEntries(storage') : k[3] = last'.id}
                = {IndexKey(last'.data.owner.address, last'.id)}
          /\ LET q == query_by_owner(storage', last'.data.owner.address)
             IN /\ q.ok
                /\ Cardinality({i \in 1..Len(q.items) :
                                   q.items[i][1] = last'.id}) = 1
          /\ load(storage', last'.id) = Some(last'.data)]_vars

C15_Witness ==
    /\ last.op = "save"
    /\ last.id = "10"
    /\ last.prev.some
    /\ last.prev.val.owner = last.data.owner
    /\ last.prev.val.extension # last.data.extension
    /\ OwnedIds(storage, last.data.owner.address) = {"10", "9"}
    /\ load(storage, "10") = Some(last.data)

C18_NoWrappedBalance ==
    /\ (last.op = "decrease_balance" /\ last.amount > last.before)
          => /\ ~last.ok
             /\ get_balance(storage, last.denom) = last.before
    /\ \A d \in Denoms : get_balance(storage, d) \in 0..MaxUint128

C18_Witness ==
    /\ last.op = "decrease_balance"
    /\ ~last.ok
    /\ last.before = 1
    /\ last.amount = 2
    /\ get_balance(storage, last.denom) = 1

SharedAddressPairs(st) ==
    {p \in LiveIds(st) \X LiveIds(st) :
        /\ p[1] # p[2]
        /\ load(st, p[1]).val.owner.address = load(st, p[2]).val.owner.address
        /\ load(st, p[1]).val.owner.chain_type
              # load(st, p[2]).val.owner.chain_type}

\* C19: two live records whose owners share an address and differ in
\* chain_type are both listed under that address, and a save that changes
\* only owner.chain_type leaves the index entries as they were.
C19_IndexIgnoresChainType ==
    [][/\ \A p \in SharedAddressPairs(storage') :
             {p[1], p[2]} \subseteq
                OwnedIds(storage', load(storage', p[1]).val.owner.address)
       /\ (/\ last'.op = "save"
           /\ load(storage, last'.id).some
           /\ last'.data.owner.chain_type
                 # load(storage, last'.id).val.owner.chain_type
           /\ last'.data = [load(storage, last'.id).val EXCEPT
                               !.owner.chain_type = last'.data.owner.chain_type])
          => /\ IndexEntries(storage') = IndexEntries(storage)
             /\ \A k \in IndexEntries(storage) : storage'[k] = storage[k]]_vars

C19_Witness ==
    /\ last.op = "save"
    /\ last.id = "9"
    /\ last.prev = Some(TokenInfo(Owner("nibiru", "nibi1alice"), "e0"))
    /\ last.data = TokenInfo(Owner("eth", "nibi1alice"), "e0")
    /\ load(storage, "1") = Some(TokenInfo(Owner("nibiru", "nibi1alice"), "e1"))
    /\ OwnedIds(storage, "nibi1alice") = {"1", "9"}

====
